---- MODULE Spec2Model ----
(***************************************************************************)
(* Stock analysis system: src/app.py (data fetch, indicator engine,        *)
(* analyzer, pie chart, CLI main) and src/stream.py (web form main).       *)
(*                                                                         *)
(* Conventions of the model                                                *)
(*  - Python None is the empty tuple <<>>; an optional value that is       *)
(*    present is wrapped, <<v>>, except an optional number, which is the   *)
(*    rational <<num, den>> itself.                                        *)
(*  - A Python float is an exact rational <<num, den>> in lowest terms     *)
(*    with den > 0 (closes are integers, so every SMA, RSI and percentage  *)
(*    of the model is such a rational).  The volatility, which needs a     *)
(*    square root, is fixed point, in tenths of a percent.                 *)
(*  - A Python str that is stripped, upper-cased or tested for blankness   *)
(*    is a sequence of one-character strings; fixed message text is a      *)
(*    TLA+ string; an f-string is a record of its template and of the      *)
(*    values interpolated into it.                                         *)
(*  - A row is [date, close] (+ sma20, rsi once computed).  open, high,    *)
(*    low and volume are copied by get_stock_data and read only by the     *)
(*    plotting code, so they are left out.  A date is the row's ordinal.   *)
(***************************************************************************)
EXTENDS Integers, Sequences, FiniteSets, TLC

VARIABLES
  pc,          \* position of the request
  frontend,    \* "cli" (app.main), "web" (stream.main), "direct" (a caller of analyze_stock), "engine"
  ticker,      \* the ticker argument handed to analyze_stock
  timeframe,   \* the timeframe argument handed to analyze_stock
  tfInput,     \* the timeframe as typed / selected, before the adapter's normalisation
  fetches,     \* the provider history calls made by get_stock_data, in order
  summary,     \* analyze_stock's first result (optional)
  data,        \* analyze_stock's second result (optional list of rows)
  error,       \* analyze_stock's third result (optional message)
  locals,      \* current_sma20, current_rsi and trend of the analysis
  analysis,    \* how the call of analyze_stock ended: "none" (no call), "returned", "raised"
  chartCalls,  \* the charting calls made, in order
  pie,         \* what plot_pie_chart returned (optional figure)
  out          \* what the adapter printed / displayed, in order

vars == <<pc, frontend, ticker, timeframe, tfInput, fetches, summary, data,
          error, locals, analysis, chartCalls, pie, out>>

\* ------------------------------------------------------------------ bounds

\* Longest price series the provider returns in the model.
MaxLen == 22

\* Day-to-day price steps of the generated series.
StepSizes == {1, 2}

\* Longest series with a zero quote in it.
MaxZeroLen == 3

\* ------------------------------------------------------------ Python values

None == <<>>

Some(v) == <<v>>

\* A local name for a value: F applied to v, with v evaluated once.
With(v, F(_)) == CHOOSE r \in {F(x) : x \in {v}} : TRUE

\* ---------------------------------------------------------------- rationals

Abs(x) == IF x < 0 THEN -x ELSE x

RECURSIVE GCD(_, _)
GCD(a, b) == IF b = 0 THEN a ELSE GCD(b, a % b)

\* n / d in lowest terms, d # 0.
Rat(n, d) ==
  LET g == GCD(Abs(n), Abs(d))
      s == IF d < 0 THEN -1 ELSE 1
  IN  <<(s * n) \div g, (s * d) \div g>>

RInt(n) == <<n, 1>>

RAdd(a, b) == Rat(a[1] * b[2] + b[1] * a[2], a[2] * b[2])

RSub(a, b) == Rat(a[1] * b[2] - b[1] * a[2], a[2] * b[2])

RMul(a, b) == Rat(a[1] * b[1], a[2] * b[2])

\* a / b, b # 0.
RDiv(a, b) == Rat(a[1] * b[2], a[2] * b[1])

RLt(a, b) == a[1] * b[2] < b[1] * a[2]

RGt(a, b) == RLt(b, a)

RLe(a, b) == ~RLt(b, a)

\* Python truthiness of an optional float: None and 0.0 are falsy.
Truthy(x) == x # None /\ x[1] # 0

\* format(x, '.2f') of a non-negative x: the number of hundredths, rounded.
Fmt2(x) == (2 * 100 * x[1] + x[2]) \div (2 * x[2])

\* ------------------------------------------------------------------ strings

LowerAlpha ==
  <<"a", "b", "c", "d", "e", "f", "g", "h", "i", "j", "k", "l", "m",
    "n", "o", "p", "q", "r", "s", "t", "u", "v", "w", "x", "y", "z">>

UpperAlpha ==
  <<"A", "B", "C", "D", "E", "F", "G", "H", "I", "J", "K", "L", "M",
    "N", "O", "P", "Q", "R", "S", "T", "U", "V", "W", "X", "Y", "Z">>

\* str.upper() on one character.
UpperChar(c) ==
  IF \E k \in 1..Len(LowerAlpha) : LowerAlpha[k] = c
  THEN UpperAlpha[CHOOSE k \in 1..Len(LowerAlpha) : LowerAlpha[k] = c]
  ELSE c

\* str.upper()
Upper(s) == [k \in 1..Len(s) |-> UpperChar(s[k])]

\* str.strip(): leading and trailing blanks removed.
Strip(s) ==
  LET keep == {k \in 1..Len(s) : s[k] # " "}
  IN  IF keep = {} THEN <<>>
      ELSE LET lo == CHOOSE k \in keep : \A j \in keep : k <= j
               hi == CHOOSE k \in keep : \A j \in keep : j <= k
           IN  SubSeq(s, lo, hi)

tf_1D == <<"1", "D">>

tf_5D == <<"5", "D">>

tf_1M == <<"1", "M">>

tf_3M == <<"3", "M">>

tf_1Y == <<"1", "Y">>

tf_5Y == <<"5", "Y">>

tf_YTD == <<"Y", "T", "D">>

tf_Max == <<"M", "a", "x">>

\* valid_timeframes of analyze_stock and of main (the same list in both).
valid_timeframes == <<tf_1D, tf_5D, tf_1M, tf_3M, tf_1Y, tf_5Y, tf_YTD, tf_Max>>

\* x in list
InList(x, l) == \E k \in 1..Len(l) : l[k] = x

\* --------------------------------------------------------- sequence helpers

RECURSIVE SumSeq(_)
SumSeq(s) == IF s = <<>> THEN 0 ELSE s[1] + SumSeq(Tail(s))

\* Python s[lo:hi] for 0 <= lo <= hi <= len(s) (0-based, hi excluded).
Slice(s, lo, hi) == SubSeq(s, lo + 1, hi)

\* Python s[i], 0-based.
At(s, i) == s[i + 1]

MaxOf(s) == CHOOSE m \in {s[k] : k \in 1..Len(s)} : \A k \in 1..Len(s) : s[k] <= m

MinOf(s) == CHOOSE m \in {s[k] : k \in 1..Len(s)} : \A k \in 1..Len(s) : m <= s[k]

\* floor(sqrt(n)), n >= 0
RECURSIVE ISqrtIn(_, _, _)
ISqrtIn(n, lo, hi) ==
  IF lo >= hi THEN lo
  ELSE LET mid == (lo + hi + 1) \div 2
       IN  IF mid * mid <= n THEN ISqrtIn(n, mid, hi) ELSE ISqrtIn(n, lo, mid - 1)

ISqrt(n) == ISqrtIn(n, 0, 46340)

\* list.sort(key=date): insertion of each row behind the rows not later than it.
RECURSIVE SortByDate(_)
SortByDate(rows) ==
  IF Len(rows) <= 1 THEN rows
  ELSE With(SortByDate(SubSeq(rows, 1, Len(rows) - 1)), LAMBDA rest :
       With(rows[Len(rows)], LAMBDA last :
       With(Cardinality({k \in 1..Len(rest) : rest[k].date <= last.date}), LAMBDA pos :
         SubSeq(rest, 1, pos) \o <<last>> \o SubSeq(rest, pos + 1, Len(rest)))))

\* ---------------------------------------------------- the provider's series

\* A price history of n closes: k1 steps one way, k2 flat days, the rest the
\* other way, moved so that its lowest close is base.
SeriesLevel(i, k1, k2, a, b) ==
  a * (IF i - 1 < k1 THEN i - 1 ELSE k1)
  + b * (IF i - 1 - k1 - k2 > 0 THEN i - 1 - k1 - k2 ELSE 0)

Min2(x, y) == IF x <= y THEN x ELSE y

\* The level is linear on each of its three stretches, so its lowest value is
\* at the first day, at the end of the first stretch or at the last day.
SeriesCloses(n, k1, k2, a, b, base) ==
  LET low == Min2(0, Min2(SeriesLevel(k1 + 1, k1, k2, a, b), SeriesLevel(n, k1, k2, a, b)))
  IN  [i \in 1..n |-> SeriesLevel(i, k1, k2, a, b) - low + base]

\* The rows of a provider answer (df.iterrows()), in the provider's order.
RowsOf(closes) == [i \in 1..Len(closes) |-> [date |-> i, close |-> closes[i]]]

\* Every series of a length in lens: rising then falling or falling then
\* rising, with flat days in between when flatsOk.
SeriesFamily(lens, flatsOk, steps, bases) ==
  UNION { UNION { UNION {
    { SeriesCloses(n, k1, k2, ab[1], ab[2], base) :
        ab \in {<<u, -d>> : u \in steps, d \in steps}
                \cup {<<-d, u>> : u \in steps, d \in steps},
        base \in bases } :
      k2 \in IF flatsOk /\ n - 1 - k1 > 0 THEN 0..(n - 1 - k1) ELSE {0} } :
      k1 \in 0..(IF n = 0 THEN 0 ELSE n - 1) } :
      n \in lens }

\* -------------------------------------------------------- indicator engine

\* sma20_of with the window closes[i-19:i], which leaves the current close out.
sma20_of_window_short(closes) ==
  [k \in 1..Len(closes) |->
     LET i == k - 1
     IN  IF i >= 19 THEN Rat(SumSeq(Slice(closes, i - 19, i)), 20)
         ELSE None]

\* sma20 of calculate_technical_indicators: one entry per close.
sma20_of(closes) ==
  [k \in 1..Len(closes) |->
     LET i == k - 1
     IN  IF i >= 19 THEN Rat(SumSeq(Slice(closes, i - 19, i + 1)), 20)
         ELSE None]

\* rsi_value answering 50 ("no signal") when there is no loss in the window.
rsi_value_no_signal(closes, i) ==
  With([k \in 1..14 |-> At(closes, i - 13 + (k - 1)) - At(closes, i - 13 + (k - 1) - 1)],
       LAMBDA deltas :
  LET gains    == [k \in 1..14 |-> IF deltas[k] > 0 THEN deltas[k] ELSE 0]
      losses   == [k \in 1..14 |-> IF deltas[k] < 0 THEN -deltas[k] ELSE 0]
      avg_gain == Rat(SumSeq(gains), 14)
      avg_loss == Rat(SumSeq(losses), 14)
  IN  IF avg_loss[1] # 0
      THEN RSub(RInt(100), RDiv(RInt(100), RAdd(RInt(1), RDiv(avg_gain, avg_loss))))
      ELSE RInt(50))

\* The RSI of row i (0-based, i >= 14) of calculate_technical_indicators.
rsi_value(closes, i) ==
  With([k \in 1..14 |-> At(closes, i - 13 + (k - 1)) - At(closes, i - 13 + (k - 1) - 1)],
       LAMBDA deltas :
  LET gains    == [k \in 1..14 |-> IF deltas[k] > 0 THEN deltas[k] ELSE 0]
      losses   == [k \in 1..14 |-> IF deltas[k] < 0 THEN -deltas[k] ELSE 0]
      avg_gain == Rat(SumSeq(gains), 14)
      avg_loss == Rat(SumSeq(losses), 14)
  IN  IF avg_loss[1] # 0
      THEN RSub(RInt(100), RDiv(RInt(100), RAdd(RInt(1), RDiv(avg_gain, avg_loss))))
      ELSE RInt(100))

\* rsi of calculate_technical_indicators: one entry per close.
rsi_of(closes) ==
  [k \in 1..Len(closes) |->
     LET i == k - 1
     IN  IF i >= 14 THEN rsi_value(closes, i) ELSE None]

\* calculate_technical_indicators(data): <<data, current_sma20, current_rsi>>.
calculate_technical_indicators(rows) ==
  IF rows = <<>> THEN <<rows, None, None>>
  ELSE With([k \in 1..Len(rows) |-> rows[k].close], LAMBDA closes :
       With(sma20_of(closes), LAMBDA sma20 :
       With(rsi_of(closes), LAMBDA rsi :
         <<[k \in 1..Len(rows) |->
              [date  |-> rows[k].date, close |-> rows[k].close,
               sma20 |-> sma20[k], rsi |-> rsi[k]]],
           sma20[Len(rows)], rsi[Len(rows)]>>)))

\* ------------------------------------------------------------ data fetching

\* A str argument.
Str(chars) == [type |-> "str", chars |-> chars, truthy |-> chars # <<>>]

\* An argument that is no str (None, a number, a list): only its type and its
\* truthiness are read.
NonStr(type, truthy) == [type |-> type, chars |-> <<>>, truthy |-> truthy]

\* timeframes of get_stock_data: the lookback in days.
timeframes(tf) ==
  CASE tf = tf_1D -> 1
    [] tf = tf_5D -> 5
    [] tf = tf_1M -> 30
    [] tf = tf_3M -> 90
    [] tf = tf_1Y -> 365
    [] tf = tf_5Y -> 1825
    [] tf = tf_Max -> 10000

timeframes_keys == {tf_1D, tf_5D, tf_1M, tf_3M, tf_1Y, tf_5Y, tf_Max}

\* What the provider does with one history call.
ProviderRaises == [kind |-> "raises", rows |-> <<>>]

ProviderEmpty == [kind |-> "empty", rows |-> <<>>]

ProviderRows(closes) == [kind |-> "rows", rows |-> RowsOf(closes)]

\* get_stock_data asking the provider a second time when the first call raises.
get_stock_data_retry(tk, tf, outcome) ==
  IF tf # tf_YTD /\ tf \notin timeframes_keys
  THEN [data |-> None,
        error |-> Some([text |-> "Invalid timeframe", cause |-> "timeframe"]),
        calls |-> <<>>]
  ELSE LET call == IF tf = tf_Max
                   THEN [ticker |-> tk.chars, period |-> "max", days |-> 0,
                         answer |-> outcome.kind]
                   ELSE IF tf = tf_YTD
                   THEN [ticker |-> tk.chars, period |-> "ytd", days |-> 0,
                         answer |-> outcome.kind]
                   ELSE [ticker |-> tk.chars, period |-> "range", days |-> timeframes(tf),
                         answer |-> outcome.kind]
       IN  IF outcome.kind = "raises"
           THEN [data |-> None,
                 error |-> Some([text |-> "Error fetching data", cause |-> "provider exception"]),
                 calls |-> <<call, call>>]
           ELSE IF outcome.kind = "empty" \/ outcome.rows = <<>>
           THEN [data |-> None,
                 error |-> Some([text |-> "Error fetching data", cause |-> "No data found for ticker"]),
                 calls |-> <<call>>]
           ELSE [data |-> Some(SortByDate(outcome.rows)), error |-> None,
                 calls |-> <<call>>]

\* get_stock_data(ticker, timeframe) when the provider answers with outcome:
\* [data, error, calls], calls being the provider history calls it made.
get_stock_data(tk, tf, outcome) ==
  IF tf # tf_YTD /\ tf \notin timeframes_keys
  THEN [data |-> None,
        error |-> Some([text |-> "Invalid timeframe", cause |-> "timeframe"]),
        calls |-> <<>>]
  ELSE LET call == IF tf = tf_Max
                   THEN [ticker |-> tk.chars, period |-> "max", days |-> 0,
                         answer |-> outcome.kind]
                   ELSE IF tf = tf_YTD
                   THEN [ticker |-> tk.chars, period |-> "ytd", days |-> 0,
                         answer |-> outcome.kind]
                   ELSE [ticker |-> tk.chars, period |-> "range", days |-> timeframes(tf),
                         answer |-> outcome.kind]
       IN  IF outcome.kind = "raises"
           THEN [data |-> None,
                 error |-> Some([text |-> "Error fetching data", cause |-> "provider exception"]),
                 calls |-> <<call>>]
           ELSE IF outcome.kind = "empty" \/ outcome.rows = <<>>
           THEN [data |-> None,
                 error |-> Some([text |-> "Error fetching data", cause |-> "No data found for ticker"]),
                 calls |-> <<call>>]
           ELSE [data |-> Some(SortByDate(outcome.rows)), error |-> None,
                 calls |-> <<call>>]

\* ----------------------------------------------------------------- analyzer

\* The date of the first row whose close is v (next(... for d in data if ...)).
first_date(rows, v) ==
  rows[CHOOSE k \in 1..Len(rows) :
         /\ rows[k].close = v
         /\ \A j \in 1..(k - 1) : rows[j].close # v].date

\* np.std(returns) * np.sqrt(252) * 100 in tenths of a percent; the returns
\* are fixed point, in thousandths.  0 when there is no return.
volatility_of(closes) ==
  IF Len(closes) <= 1 THEN 0
  ELSE With([k \in 1..(Len(closes) - 1) |->
               ((closes[k + 1] - closes[k]) * 1000) \div closes[k]], LAMBDA rets :
       With(SumSeq(rets) \div Len(rets), LAMBDA mean :
       With(SumSeq([k \in 1..Len(rets) |-> (rets[k] - mean) * (rets[k] - mean)])
              \div Len(rets), LAMBDA var :
         ISqrt(var * 252))))

\* Lines 131 and 134 divide by the lowest close and by every close but the last.
analysis_divides_by_zero(closes) ==
  /\ Len(closes) > 1
  /\ \/ MinOf(closes) = 0
     \/ \E k \in 1..(Len(closes) - 1) : closes[k] = 0

\* trend_of calling a price equal to its average bullish.
trend_of_at_least(current_price, current_sma20) ==
  IF Truthy(current_sma20) /\ RLe(current_sma20, RInt(current_price)) THEN "bullish"
  ELSE IF Truthy(current_sma20) /\ RLt(RInt(current_price), current_sma20) THEN "bearish"
  ELSE "neutral"

\* trend of analyze_stock.
trend_of(current_price, current_sma20) ==
  IF Truthy(current_sma20) /\ RGt(RInt(current_price), current_sma20) THEN "bullish"
  ELSE IF Truthy(current_sma20) /\ RLt(RInt(current_price), current_sma20) THEN "bearish"
  ELSE "neutral"

\* The momentum sentence of short_term_strategy.
momentum_of(current_rsi) ==
  IF Truthy(current_rsi) /\ RGt(current_rsi, RInt(70)) THEN "Overbought (caution)."
  ELSE IF Truthy(current_rsi) /\ RLt(current_rsi, RInt(30)) THEN "Oversold (opportunity)."
  ELSE "Neutral momentum."

\* The RSI sentence of short_term_risk.
rsi_risk_of(current_rsi) ==
  IF Truthy(current_rsi) /\ RGt(current_rsi, RInt(70)) THEN "Overbought RSI risks pullback."
  ELSE IF Truthy(current_rsi) /\ RLt(current_rsi, RInt(30)) THEN "Oversold RSI may reverse."
  ELSE ""

\* ${x:.2f} of an optional float, 'N/A' (None here) when it is falsy.
fmt_or_na(x) == IF Truthy(x) THEN Some(Fmt2(x)) ELSE None

\* What analyze_stock computes from the fetched rows before it writes any
\* text (lines 124-140).
features_of(rows0) ==
  With(calculate_technical_indicators(rows0), LAMBDA calc :
  With([k \in 1..Len(calc[1]) |-> calc[1][k].close], LAMBDA closes :
  With(<<MaxOf(closes), MinOf(closes)>>, LAMBDA peak :
    [rows              |-> calc[1],
     current_sma20     |-> calc[2],
     current_rsi       |-> calc[3],
     current_price     |-> closes[Len(closes)],
     highest_peak      |-> peak[1],
     lowest_peak       |-> peak[2],
     highest_peak_date |-> first_date(calc[1], peak[1]),
     lowest_peak_date  |-> first_date(calc[1], peak[2]),
     price_change_pct  |-> IF Len(closes) > 1
                           THEN RMul(Rat(closes[Len(closes)] - peak[2], peak[2]), RInt(100))
                           ELSE RInt(0),
     volatility        |-> volatility_of(closes),
     trend             |-> trend_of(closes[Len(closes)], calc[2])])))

sma_status_of(tf, f) ==
  IF tf = tf_1D /\ Len(f.rows) < 14
  THEN [text |-> "SMA not available (insufficient data).", value |-> None, trend |-> ""]
  ELSE [text |-> "20-day SMA: {}, indicating a {} trend.",
        value |-> fmt_or_na(f.current_sma20), trend |-> f.trend]

rsi_status_of(tf, f) ==
  IF tf = tf_1D /\ Len(f.rows) < 14
  THEN [text |-> "RSI not available (insufficient data).", value |-> None]
  ELSE [text |-> "RSI (14-Day): {}", value |-> fmt_or_na(f.current_rsi)]

long_term_strategy_of(TICKER, tf, f) ==
  IF tf = tf_1D
  THEN [text |-> "Long-term analysis not applicable for 1-day timeframe."]
  ELSE [text |-> "For a {} horizon, {}'s outlook depends on fundamentals. ...",
        timeframe |-> tf, ticker |-> TICKER,
        price |-> Fmt2(RInt(f.current_price)),
        high |-> Fmt2(RInt(f.highest_peak)), high_date |-> f.highest_peak_date,
        low |-> Fmt2(RInt(f.lowest_peak)), low_date |-> f.lowest_peak_date,
        sma_status |-> sma_status_of(tf, f),
        pullback |-> Fmt2(RMul(RInt(f.current_price), Rat(9, 10)))]

short_term_strategy_of(TICKER, tf, f) ==
  IF tf = tf_1D
  THEN [text |-> "Short-term ({}): Limited data for strategy; monitor intraday price at ${}.",
        timeframe |-> tf, price |-> Fmt2(RInt(f.current_price))]
  ELSE [text |-> "Short-term ({}), {} shows a {} trend with {}. ...",
        timeframe |-> tf, ticker |-> TICKER, trend |-> f.trend,
        rsi_status |-> rsi_status_of(tf, f),
        momentum |-> momentum_of(f.current_rsi),
        entry |-> Fmt2(RMul(RInt(f.current_price), Rat(95, 100))),
        stop_loss |-> Fmt2(RInt(f.lowest_peak)),
        breakout |-> Fmt2(RInt(f.highest_peak)),
        rally |-> Fmt2(RMul(RInt(f.current_price), Rat(11, 10)))]

\* long_term_risk_of quoting the volatility for every timeframe.
long_term_risk_of_always_computed(TICKER, tf, f) ==
  [text |-> "Long-term risk for {} is {}. Volatility: {}% ({}). ...",
   ticker |-> TICKER,
   level |-> IF tf \in {tf_5Y, tf_Max} THEN "low to moderate" ELSE "moderate",
   volatility |-> f.volatility,
   class |-> IF f.volatility < 200 THEN "stable"
             ELSE IF f.volatility < 400 THEN "moderate" ELSE "high"]

\* The volatility f.volatility is in tenths of a percent: 200 is 20 %.
long_term_risk_of(TICKER, tf, f) ==
  IF tf = tf_1D
  THEN [text |-> "Risk analysis not applicable for 1-day timeframe."]
  ELSE [text |-> "Long-term risk for {} is {}. Volatility: {}% ({}). ...",
        ticker |-> TICKER,
        level |-> IF tf \in {tf_5Y, tf_Max} THEN "low to moderate" ELSE "moderate",
        volatility |-> f.volatility,
        class |-> IF f.volatility < 200 THEN "stable"
                  ELSE IF f.volatility < 400 THEN "moderate" ELSE "high"]

short_term_risk_of(TICKER, tf, f) ==
  IF tf = tf_1D
  THEN [text |-> "Short-term risk: High due to limited data; use tight stop-loss at ${}.",
        stop_loss |-> Fmt2(RMul(RInt(f.current_price), Rat(95, 100)))]
  ELSE [text |-> "Short-term risk is {} (volatility: {}%). {} Monitor news, use stop-loss.",
        level |-> IF RGt(f.price_change_pct, RInt(20)) \/ f.volatility > 400
                  THEN "high" ELSE "moderate",
        volatility |-> f.volatility,
        rsi_risk |-> rsi_risk_of(f.current_rsi)]

recommendation_of(TICKER, tf, f) ==
  IF tf = tf_1D
  THEN [text |-> "Monitor {} closely; insufficient data for robust recommendation.",
        ticker |-> TICKER]
  ELSE [text |-> "{} {}. {} Align with portfolio goals.",
        action |-> IF RGt(f.price_change_pct, RInt(20))
                      /\ (~Truthy(f.current_rsi) \/ RGt(f.current_rsi, RInt(70)))
                   THEN "Sell or take profits" ELSE "Buy or accumulate",
        ticker |-> TICKER,
        note |-> IF RGt(f.price_change_pct, RInt(20))
                 THEN "Caution near highs." ELSE "Bullish near supports."]

\* The summary text of analyze_stock (lines 202-219) from the features f.
summary_of(TICKER, tf, f) ==
  [ticker |-> TICKER, timeframe |-> tf,
   current_price |-> Fmt2(RInt(f.current_price)),
   highest_peak |-> Fmt2(RInt(f.highest_peak)),
   highest_peak_date |-> f.highest_peak_date,
   lowest_peak |-> Fmt2(RInt(f.lowest_peak)),
   lowest_peak_date |-> f.lowest_peak_date,
   sma_status |-> sma_status_of(tf, f),
   rsi_status |-> rsi_status_of(tf, f),
   long_term_strategy |-> long_term_strategy_of(TICKER, tf, f),
   short_term_strategy |-> short_term_strategy_of(TICKER, tf, f),
   long_term_risk |-> long_term_risk_of(TICKER, tf, f),
   short_term_risk |-> short_term_risk_of(TICKER, tf, f),
   recommendation |-> recommendation_of(TICKER, tf, f)]

\* Everything analyze_stock derives from the fetched rows (lines 124-219).
report_of(tk, tf, rows0) ==
  With(features_of(rows0), LAMBDA f :
    [data |-> f.rows,
     locals |-> [current_sma20 |-> f.current_sma20, current_rsi |-> f.current_rsi,
                 trend |-> f.trend],
     summary |-> summary_of(Upper(tk.chars), tf, f)])

\* The locals of an analysis that computed nothing.
no_locals == [current_sma20 |-> None, current_rsi |-> None, trend |-> ""]

\* invalid_input without the test of the stripped ticker.
invalid_input_no_strip(tk, tf) ==
  \/ ~tk.truthy
  \/ tk.type # "str"
  \/ ~InList(tf, valid_timeframes)

\* The validation of analyze_stock (line 113).
invalid_input(tk, tf) ==
  \/ ~tk.truthy
  \/ tk.type # "str"
  \/ Strip(tk.chars) = <<>>
  \/ ~InList(tf, valid_timeframes)

\* analyze_stock(ticker, timeframe) when the provider answers with outcome:
\* what it returns ([raised |-> FALSE, summary, data, error]) or that it raises,
\* with the provider calls it made and the indicators it computed.
analyze_stock(tk, tf, outcome) ==
  IF invalid_input(tk, tf)
  THEN [raised |-> FALSE, summary |-> None, data |-> None,
        error |-> Some([text |-> "Invalid input: Please provide a valid ticker and timeframe ({}).",
                        options |-> valid_timeframes]),
        calls |-> <<>>, locals |-> no_locals]
  ELSE With(get_stock_data(tk, tf, outcome), LAMBDA got :
       IF got.error # None \/ got.data = None \/ got.data = Some(<<>>)
       THEN [raised |-> FALSE, summary |-> None, data |-> None,
             error |-> IF got.error # None THEN got.error
                       ELSE Some([text |-> "No data available.", cause |-> ""]),
             calls |-> got.calls, locals |-> no_locals]
       ELSE IF analysis_divides_by_zero([k \in 1..Len(got.data[1]) |-> got.data[1][k].close])
       THEN [raised |-> TRUE, summary |-> None, data |-> None, error |-> None,
             calls |-> got.calls, locals |-> no_locals]
       ELSE With(report_of(tk, tf, got.data[1]), LAMBDA rep :
              [raised |-> FALSE, summary |-> Some(rep.summary),
               data |-> Some(rep.data), error |-> None,
               calls |-> got.calls, locals |-> rep.locals]))

\* ---------------------------------------------------------------- pie chart

pie_labels ==
  <<"Above SMA", "Below SMA", "Overbought (RSI > 70)", "Oversold (RSI < 30)",
    "Neutral RSI">>

\* How many rows satisfy P.
CountRows(rows, P(_)) == Cardinality({k \in 1..Len(rows) : P(rows[k])})

\* The five counts of plot_pie_chart, in the order of pie_labels.
pie_counts(rows) ==
  LET above(d)      == d.sma20 # None /\ RGt(RInt(d.close), d.sma20)
      below(d)      == d.sma20 # None /\ RLe(RInt(d.close), d.sma20)
      overbought(d) == d.rsi # None /\ RGt(d.rsi, RInt(70))
      oversold(d)   == d.rsi # None /\ RLt(d.rsi, RInt(30))
      neutral(d)    == d.rsi # None /\ RLe(RInt(30), d.rsi) /\ RLe(d.rsi, RInt(70))
  IN  <<CountRows(rows, above), CountRows(rows, below), CountRows(rows, overbought),
        CountRows(rows, oversold), CountRows(rows, neutral)>>

\* [x for x, s in zip(xs, counts) if s > 0]
RECURSIVE KeepNonZero(_, _)
KeepNonZero(xs, counts) ==
  IF xs = <<>> \/ counts = <<>> THEN <<>>
  ELSE (IF counts[1] > 0 THEN <<xs[1]>> ELSE <<>>)
       \o KeepNonZero(Tail(xs), Tail(counts))

\* plot_pie_chart zipping the labels with the sizes already filtered.
plot_pie_chart_zip_filtered(rows) ==
  IF rows = <<>> THEN None
  ELSE With(pie_counts(rows), LAMBDA counts :
       With(KeepNonZero(counts, counts), LAMBDA sizes :
         IF sizes = <<>> THEN None
         ELSE Some([sizes |-> sizes, labels |-> KeepNonZero(pie_labels, sizes)])))

\* plot_pie_chart(data, ticker, timeframe): None, or the figure's wedges.
plot_pie_chart(rows) ==
  IF rows = <<>> THEN None
  ELSE With(pie_counts(rows), LAMBDA counts :
       With(KeepNonZero(counts, counts), LAMBDA sizes :
         IF sizes = <<>> THEN None
         ELSE Some([sizes |-> sizes, labels |-> KeepNonZero(pie_labels, counts)])))

\* ------------------------------------------------------------------ inputs

chars_AAPL == <<"A", "A", "P", "L">>

chars_aapl == <<"a", "a", "p", "l">>

\* What a user types at a ticker prompt / text box.
TickerInputs == {chars_AAPL, <<" ">> \o chars_aapl \o <<" ">>, <<>>, <<" ", " ">>}

\* What a user types at the CLI timeframe prompt.
TimeframeInputs ==
  {valid_timeframes[k] : k \in 1..Len(valid_timeframes)}
    \cup {<<"m", "a", "x">>, <<"1", "d", " ">>, <<"2", "W">>, <<>>}

\* The options of the web form's selectbox.
SelectboxOptions == {valid_timeframes[k] : k \in 1..Len(valid_timeframes)}

\* The arguments a caller may hand to analyze_stock.
TickerArgs ==
  {Str(chars_aapl), Str(<<>>), Str(<<" ", " ">>), NonStr("NoneType", FALSE),
   NonStr("int", TRUE), NonStr("list", TRUE)}

TimeframeArgs ==
  {valid_timeframes[k] : k \in 1..Len(valid_timeframes)}
    \cup {<<"2", "W">>, <<"m", "a", "x">>, <<>>}

\* The series the provider may answer a request with: rising then falling or
\* falling then rising by one a day, flat ones, and short ones with a zero
\* quote.
FlowSeries ==
  SeriesFamily(1..MaxLen, FALSE, {1}, {1})
    \cup {[i \in 1..n |-> 5] : n \in 1..MaxLen}
    \cup SeriesFamily(1..MaxZeroLen, FALSE, {1}, {0})

ProviderOutcomes ==
  {ProviderRaises, ProviderEmpty} \cup {ProviderRows(c) : c \in FlowSeries}

\* The series handed to the indicator engine on its own.
EngineSeries == SeriesFamily(0..MaxLen, TRUE, StepSizes, {1})

\* ----------------------------------------------------------------- requests

Init ==
  /\ pc = "idle"
  /\ frontend = "none"
  /\ ticker = Str(<<>>)
  /\ timeframe = <<>>
  /\ tfInput = <<>>
  /\ fetches = <<>>
  /\ summary = None
  /\ data = None
  /\ error = None
  /\ locals = no_locals
  /\ analysis = "none"
  /\ chartCalls = <<>>
  /\ pie = None
  /\ out = <<>>

\* app.main up to the call of analyze_stock: the prompts and the adapter's
\* own validation.
CliMain ==
  /\ pc = "idle"
  /\ \E tkTyped \in TickerInputs, tfTyped \in TimeframeInputs :
       LET tk == Upper(Strip(tkTyped))
           tf == Upper(Strip(tfTyped))
       IN  /\ frontend' = "cli"
           /\ ticker' = Str(tk)
           /\ timeframe' = tf
           /\ tfInput' = tfTyped
           /\ IF tk = <<>>
              THEN /\ out' = Append(out, [text |-> "Error: Please enter a valid stock ticker."])
                   /\ pc' = "done"
              ELSE IF ~InList(tf, valid_timeframes)
              THEN /\ out' = Append(out, [text |-> "Error: Invalid timeframe. Choose from {}."])
                   /\ pc' = "done"
              ELSE /\ out' = out
                   /\ pc' = "analyze"
  /\ UNCHANGED <<fetches, summary, data, error, locals, analysis, chartCalls, pie>>

\* stream.main up to the call of analyze_stock, once Analyze is clicked.
WebMain ==
  /\ pc = "idle"
  /\ \E tkTyped \in TickerInputs, tfSel \in SelectboxOptions :
       LET tk == Upper(Strip(tkTyped))
       IN  /\ frontend' = "web"
           /\ ticker' = Str(tk)
           /\ timeframe' = tfSel
           /\ tfInput' = tfSel
           /\ IF tk = <<>>
              THEN /\ out' = Append(out, [text |-> "Please enter a valid stock ticker."])
                   /\ pc' = "done"
              ELSE IF ~InList(tfSel, valid_timeframes)
              THEN /\ out' = Append(out, [text |-> "Please select a valid timeframe."])
                   /\ pc' = "done"
              ELSE /\ out' = out
                   /\ pc' = "analyze"
  /\ UNCHANGED <<fetches, summary, data, error, locals, analysis, chartCalls, pie>>

\* Any other caller of analyze_stock(ticker, timeframe).
DirectCall ==
  /\ pc = "idle"
  /\ \E tk \in TickerArgs, tf \in TimeframeArgs :
       /\ frontend' = "direct"
       /\ ticker' = tk
       /\ timeframe' = tf
       /\ tfInput' = tf
  /\ pc' = "analyze"
  /\ UNCHANGED <<fetches, summary, data, error, locals, analysis, chartCalls, pie, out>>

\* One call of analyze_stock, from its first line to its return or to the
\* exception leaving it.
AnalyzeStock ==
  /\ pc = "analyze"
  /\ \E outcome \in ProviderOutcomes :
       \E r \in {analyze_stock(ticker, timeframe, outcome)} :
           /\ fetches' = fetches \o r.calls
           /\ summary' = r.summary
           /\ data' = r.data
           /\ error' = r.error
           /\ locals' = r.locals
           /\ analysis' = IF r.raised THEN "raised" ELSE "returned"
           /\ pc' = IF ~r.raised THEN "returned"
                    ELSE IF frontend = "direct" THEN "propagated" ELSE "raised"
  /\ UNCHANGED <<frontend, ticker, timeframe, tfInput, chartCalls, pie, out>>

\* AdapterResult going on to the charts whatever the error.
AdapterResult_ignores_error ==
  /\ pc = "returned"
  /\ frontend \in {"cli", "web"}
  /\ out' = Append(out, [text |-> "summary"])
  /\ pc' = "plot"
  /\ UNCHANGED <<frontend, ticker, timeframe, tfInput, fetches, summary, data,
                 error, locals, analysis, chartCalls, pie>>

\* The adapter's look at analyze_stock's result (app.py 340-347,
\* stream.py 36-47).
AdapterResult ==
  /\ pc = "returned"
  /\ frontend \in {"cli", "web"}
  /\ IF error # None
     THEN /\ out' = Append(out, [text |-> "Error: {}", error |-> error[1]])
          /\ pc' = "done"
     ELSE IF data = None \/ data = Some(<<>>)
     THEN /\ out' = Append(out, [text |-> "Error: No data returned from analysis."])
          /\ pc' = "done"
     ELSE /\ out' = Append(out, [text |-> "summary"])
          /\ pc' = "plot"
  /\ UNCHANGED <<frontend, ticker, timeframe, tfInput, fetches, summary, data,
                 error, locals, analysis, chartCalls, pie>>

\* plot_stock_data and the display of its figure; the charting library may
\* raise.
PlotStockData ==
  /\ pc = "plot"
  /\ chartCalls' = Append(chartCalls, "plot_stock_data")
  /\ \E raises \in BOOLEAN :
       IF raises
       THEN pc' = "raised" /\ out' = out
       ELSE /\ out' = Append(out, [text |-> "chart"])
            /\ pc' = IF frontend = "cli" THEN "pie" ELSE "done"
  /\ UNCHANGED <<frontend, ticker, timeframe, tfInput, fetches, summary, data,
                 error, locals, analysis, pie>>

\* app.main's call of plot_pie_chart and the display of its figure.
PlotPieChart ==
  /\ pc = "pie"
  /\ chartCalls' = Append(chartCalls, "plot_pie_chart")
  /\ \E raises \in BOOLEAN :
       IF raises
       THEN pc' = "raised" /\ out' = out /\ pie' = pie
       ELSE /\ pie' = plot_pie_chart(data[1])
            /\ out' = Append(out, [text |-> IF pie' # None THEN "pie chart"
                                            ELSE "DEBUG: Pie chart not displayed due to insufficient data"])
            /\ pc' = "done"
  /\ UNCHANGED <<frontend, ticker, timeframe, tfInput, fetches, summary, data,
                 error, locals, analysis>>

\* except Exception as e: of app.main and of stream.main.
AdapterCatch ==
  /\ pc = "raised"
  /\ out' = Append(out, [text |-> IF frontend = "cli"
                                  THEN "Error: Analysis failed due to an unexpected issue: {}"
                                  ELSE "Analysis failed: {}"])
  /\ pc' = "done"
  /\ UNCHANGED <<frontend, ticker, timeframe, tfInput, fetches, summary, data,
                 error, locals, analysis, chartCalls, pie>>

Next ==
  \/ CliMain
  \/ WebMain
  \/ DirectCall
  \/ AnalyzeStock
  \/ AdapterResult
  \/ PlotStockData
  \/ PlotPieChart
  \/ AdapterCatch

Spec == Init /\ [][Next]_vars

\* --------------------------------------------- the indicator engine alone

InitEngine ==
  /\ pc = "engine"
  /\ frontend = "engine"
  /\ ticker = Str(chars_AAPL)
  /\ timeframe = tf_1Y
  /\ tfInput = tf_1Y
  /\ fetches = <<>>
  /\ summary = None
  /\ \E c \in EngineSeries : data = Some(SortByDate(RowsOf(c)))
  /\ error = None
  /\ locals = no_locals
  /\ analysis = "none"
  /\ chartCalls = <<>>
  /\ pie = None
  /\ out = <<>>

\* calculate_technical_indicators(data): the rows get their sma20 and rsi.
CalculateTechnicalIndicators ==
  /\ pc = "engine"
  /\ \E r \in {calculate_technical_indicators(data[1])} :
         /\ data' = Some(r[1])
         /\ locals' = [current_sma20 |-> r[2], current_rsi |-> r[3], trend |-> ""]
  /\ pc' = "computed"
  /\ UNCHANGED <<frontend, ticker, timeframe, tfInput, fetches, summary, error,
                 analysis, chartCalls, pie, out>>

\* plot_pie_chart(data, ticker, timeframe) on the enriched rows.
EnginePieChart ==
  /\ pc = "computed"
  /\ chartCalls' = Append(chartCalls, "plot_pie_chart")
  /\ pie' = plot_pie_chart(data[1])
  /\ pc' = "charted"
  /\ UNCHANGED <<frontend, ticker, timeframe, tfInput, fetches, summary, data,
                 error, locals, analysis, out>>

NextEngine ==
  \/ CalculateTechnicalIndicators
  \/ EnginePieChart

SpecEngine == InitEngine /\ [][NextEngine]_vars

\* ======================================================================
\* Properties of the indicator engine and of the pie chart (SpecEngine)
\* ======================================================================

\* The rows once calculate_technical_indicators has run.
EngineDone == pc \in {"computed", "charted"}

RECURSIVE SumCloses(_, _, _)
\* close[lo] + ... + close[hi] of rows (1-based, both included).
SumCloses(rows, lo, hi) ==
  IF lo > hi THEN 0 ELSE rows[hi].close + SumCloses(rows, lo, hi - 1)

RECURSIVE GainSum(_, _, _)
\* The sum of the rises close[j] - close[j-1] > 0 for j in lo..hi.
GainSum(rows, lo, hi) ==
  IF lo > hi THEN 0
  ELSE (IF rows[hi].close > rows[hi - 1].close
        THEN rows[hi].close - rows[hi - 1].close ELSE 0)
       + GainSum(rows, lo, hi - 1)

RECURSIVE LossSum(_, _, _)
\* The sum of the falls close[j-1] - close[j] > 0 for j in lo..hi.
LossSum(rows, lo, hi) ==
  IF lo > hi THEN 0
  ELSE (IF rows[hi].close < rows[hi - 1].close
        THEN rows[hi - 1].close - rows[hi].close ELSE 0)
       + LossSum(rows, lo, hi - 1)

\* C1: calculate_technical_indicators keeps every row in its place and gives
\* row i (0-based) an sma20 that is None iff i < 19 and is otherwise the mean
\* of the 20 closes i-19..i (so fewer than 20 rows have no sma20 at all and
\* exactly 20 rows have one, on the last row).
C1_Sma20OfEveryRow ==
  [][(pc = "engine" /\ pc' = "computed") =>
       /\ Len(data'[1]) = Len(data[1])
       /\ \A k \in 1..Len(data[1]) :
            /\ data'[1][k].date = data[1][k].date
            /\ data'[1][k].close = data[1][k].close
            /\ (data'[1][k].sma20 = None) <=> (k - 1 < 19)
            /\ k - 1 >= 19 =>
                 /\ Len(data'[1][k].sma20) = 2
                 /\ data'[1][k].sma20[2] > 0
                 /\ 20 * data'[1][k].sma20[1]
                      = data'[1][k].sma20[2] * SumCloses(data[1], k - 19, k)
       /\ locals'.current_sma20
            = (IF data'[1] = <<>> THEN None ELSE data'[1][Len(data'[1])].sma20)]_vars

\* C1 witness: exactly 20 rows of changing closes, the last one alone has an sma20.
C1_Witness ==
  /\ pc = "computed"
  /\ Len(data[1]) = 20
  /\ data[1][20].sma20 # None
  /\ data[1][19].sma20 = None
  /\ data[1][1].close # data[1][20].close

\* C2: row i (0-based) has rsi = None iff i < 14; otherwise, with G and L the
\* sums of the rises and of the falls among the 14 deltas i-13..i, rsi is 100
\* when L = 0 (the flat window included) and 100 - 100/(1 + (G/14)/(L/14)),
\* that is 100 G / (G + L), when L > 0; it lies in [0, 100].
C2_RsiOfEveryRow ==
  EngineDone =>
    \A k \in 1..Len(data[1]) :
      /\ (data[1][k].rsi = None) <=> (k - 1 < 14)
      /\ k - 1 >= 14 =>
           \E G \in {GainSum(data[1], k - 13, k)}, L \in {LossSum(data[1], k - 13, k)},
              r \in {data[1][k].rsi} :
             /\ Len(r) = 2 /\ r[2] > 0
             /\ L = 0 => r = <<100, 1>>
             /\ L > 0 => r[1] * (G + L) = 100 * G * r[2]
             /\ 0 <= r[1] /\ r[1] <= 100 * r[2]

\* C2 witness: a row whose window has no fall (rsi 100) next to a row whose
\* window has rises and falls.
C2_Witness ==
  /\ pc = "computed"
  /\ Len(data[1]) >= 16
  /\ \E k \in 15..Len(data[1]) :
       /\ GainSum(data[1], k - 13, k) > 0
       /\ LossSum(data[1], k - 13, k) > 0
       /\ data[1][k].rsi # None
  /\ \E k \in 15..Len(data[1]) :
       /\ LossSum(data[1], k - 13, k) = 0
       /\ data[1][k].rsi = <<100, 1>>

\* The five buckets of the pie chart, counted over rows.
C9_Counts(rows) ==
  <<Cardinality({k \in 1..Len(rows) :
      rows[k].sma20 # None /\ rows[k].close * rows[k].sma20[2] > rows[k].sma20[1]}),
    Cardinality({k \in 1..Len(rows) :
      rows[k].sma20 # None /\ rows[k].close * rows[k].sma20[2] <= rows[k].sma20[1]}),
    Cardinality({k \in 1..Len(rows) :
      rows[k].rsi # None /\ rows[k].rsi[1] > 70 * rows[k].rsi[2]}),
    Cardinality({k \in 1..Len(rows) :
      rows[k].rsi # None /\ rows[k].rsi[1] < 30 * rows[k].rsi[2]}),
    Cardinality({k \in 1..Len(rows) :
      /\ rows[k].rsi # None
      /\ 30 * rows[k].rsi[2] <= rows[k].rsi[1]
      /\ rows[k].rsi[1] <= 70 * rows[k].rsi[2]})>>

C9_Labels ==
  <<"Above SMA", "Below SMA", "Overbought (RSI > 70)", "Oversold (RSI < 30)",
    "Neutral RSI">>

\* C9: plot_pie_chart charts exactly the buckets with a non-zero count, each
\* label with its own count, and returns None iff the five counts are zero,
\* which for a non-empty series is iff no row has an sma20 or an rsi, that is
\* iff there are fewer than 15 rows.
C9_PieChartBuckets ==
  pc = "charted" =>
    \E c \in {C9_Counts(data[1])} :
      /\ (pie = None) <=> (\A b \in 1..5 : c[b] = 0)
      /\ pie # None =>
           /\ Len(pie[1].labels) = Cardinality({b \in 1..5 : c[b] > 0})
           /\ Len(pie[1].sizes) = Len(pie[1].labels)
           /\ \A b \in 1..5 :
                (c[b] > 0) <=>
                  \E q \in 1..Len(pie[1].labels) :
                    pie[1].labels[q] = C9_Labels[b] /\ pie[1].sizes[q] = c[b]
      /\ data[1] # <<>> =>
           /\ (pie = None) <=>
                (\A k \in 1..Len(data[1]) :
                   data[1][k].sma20 = None /\ data[1][k].rsi = None)
           /\ (pie = None) <=> (Len(data[1]) < 15)

\* C9 witness: a chart that leaves out the first bucket and keeps others.
C9_Witness ==
  /\ pc = "charted"
  /\ pie # None
  /\ Len(pie[1].labels) < 5
  /\ pie[1].labels[1] # "Above SMA"

\* ======================================================================
\* Properties of a request (Spec)
\* ======================================================================

\* The enumerated timeframes.
C_Timeframes ==
  {<<"1", "D">>, <<"5", "D">>, <<"1", "M">>, <<"3", "M">>, <<"1", "Y">>,
   <<"5", "Y">>, <<"Y", "T", "D">>, <<"M", "a", "x">>}

\* The arguments of the analyze_stock call are not acceptable.
C_InvalidArgs ==
  \/ ticker.type # "str"
  \/ \A k \in 1..Len(ticker.chars) : ticker.chars[k] = " "
  \/ timeframe \notin C_Timeframes

\* analyze_stock returned a summary and rows.
C_Success == analysis = "returned" /\ error = None

\* C3: a call of analyze_stock with an empty, non-string or blank ticker or
\* with a timeframe outside the enumerated set returns (None, None, error),
\* the error naming the 8 accepted timeframes, and makes no provider call.
C3_InvalidInputRejected ==
  (analysis # "none" /\ C_InvalidArgs) =>
    /\ analysis = "returned"
    /\ fetches = <<>>
    /\ summary = None
    /\ data = None
    /\ error # None
    /\ error[1].text = "Invalid input: Please provide a valid ticker and timeframe ({})."
    /\ Len(error[1].options) = 8
    /\ \A tf \in C_Timeframes : \E k \in 1..8 : error[1].options[k] = tf

\* C3 witness: analyze_stock("aapl", "2W") has returned its error.
C3_Witness ==
  /\ analysis = "returned"
  /\ frontend = "direct"
  /\ ticker = Str(chars_aapl)
  /\ timeframe = <<"2", "W">>
  /\ error # None
  /\ fetches = <<>>

\* C4: with valid arguments analyze_stock asks the provider exactly once; when
\* the provider raises or has no data it returns (None, None, non-empty
\* message) instead of raising; and in every result the error is non-null iff
\* summary and rows are both null.
C4_FetchFailureIsAnError ==
  /\ (analysis # "none" /\ ~C_InvalidArgs) =>
       /\ Len(fetches) = 1
       /\ fetches[1].answer \in {"raises", "empty"} =>
            /\ analysis = "returned"
            /\ summary = None
            /\ data = None
            /\ error # None
            /\ error[1].text # ""
  /\ analysis = "returned" => ((error # None) <=> (summary = None /\ data = None))
  /\ analysis = "returned" => ((error = None) <=> (summary # None /\ data # None))

\* C4 witness: the provider raised under the web form and the result is an error.
C4_Witness ==
  /\ analysis = "returned"
  /\ frontend = "web"
  /\ Len(fetches) = 1
  /\ fetches[1].answer = "raises"
  /\ error # None

\* C5: the momentum of the short-term strategy and the RSI sentence of the
\* short-term risk are overbought for every defined RSI > 70, oversold for
\* every defined RSI < 30 (RSI = 0 included) and neutral otherwise.
C5_MomentumFromRsi ==
  (C_Success /\ timeframe # tf_1D) =>
    \E r \in {data[1][Len(data[1])].rsi} :
      /\ summary[1].short_term_strategy.momentum
           = (IF r # None /\ r[1] > 70 * r[2] THEN "Overbought (caution)."
              ELSE IF r # None /\ r[1] < 30 * r[2] THEN "Oversold (opportunity)."
              ELSE "Neutral momentum.")
      /\ summary[1].short_term_risk.rsi_risk
           = (IF r # None /\ r[1] > 70 * r[2] THEN "Overbought RSI risks pullback."
              ELSE IF r # None /\ r[1] < 30 * r[2] THEN "Oversold RSI may reverse."
              ELSE "")

\* C6: for positive closes the trend is bullish iff the last close is above
\* the last row's sma20, bearish iff it is below, neutral iff that sma20 is
\* undefined (fewer than 20 rows) or equal to the last close.
C6_TrendFromSma ==
  (C_Success /\ \A k \in 1..Len(data[1]) : data[1][k].close > 0) =>
    \E p \in {data[1][Len(data[1])].close}, a \in {data[1][Len(data[1])].sma20} :
      /\ (a = None) <=> (Len(data[1]) < 20)
      /\ (locals.trend = "bullish") <=> (a # None /\ p * a[2] > a[1])
      /\ (locals.trend = "bearish") <=> (a # None /\ p * a[2] < a[1])
      /\ (locals.trend = "neutral") <=> (a = None \/ p * a[2] = a[1])
      /\ timeframe # tf_1D =>
           /\ summary[1].short_term_strategy.trend = locals.trend
           /\ summary[1].sma_status.trend = locals.trend

\* C6 witness: an analysis of 20 rows or more whose price is above its average.
C6_Witness ==
  /\ C_Success
  /\ timeframe # tf_1D
  /\ Len(data[1]) >= 20
  /\ locals.trend = "bullish"
  /\ summary[1].short_term_strategy.trend = "bullish"

\* In the CLI and the web form no chart is asked for unless analyze_stock has
\* returned no error and at least one row; a result with an error or without
\* rows ends the request with an error message; no exception leaves the adapter.
C7_ChartsNeedAResult ==
  /\ chartCalls # <<>> =>
       /\ frontend \in {"cli", "web"}
       /\ analysis = "returned"
       /\ error = None
       /\ data # None
       /\ data[1] # <<>>
  /\ (/\ frontend \in {"cli", "web"}
      /\ analysis = "returned"
      /\ pc # "returned"
      /\ (error # None \/ data = None \/ data = Some(<<>>))) =>
       /\ pc = "done"
       /\ chartCalls = <<>>
       /\ out # <<>>
       /\ out[Len(out)].text \in {"Error: {}", "Error: No data returned from analysis."}
  /\ frontend \in {"cli", "web"} => pc # "propagated"
  /\ frontend = "web" => \A q \in 1..Len(chartCalls) : chartCalls[q] = "plot_stock_data"

\* A chart call is made from a state in which analyze_stock has returned rows
\* and no error, and an exception in flight is reported by the adapter's handler.
C7_Step ==
  /\ chartCalls' # chartCalls =>
       /\ analysis = "returned"
       /\ error = None
       /\ data # None
       /\ data[1] # <<>>
  /\ pc = "raised" =>
       /\ pc' = "done"
       /\ chartCalls' = chartCalls
       /\ Len(out') = Len(out) + 1
       /\ out'[Len(out')].text \in
            {"Error: Analysis failed due to an unexpected issue: {}", "Analysis failed: {}"}

\* C7: in both front ends the charting calls come only after analyze_stock
\* returned a null error and non-empty rows; an error or empty rows end the
\* request with a message and no chart; exceptions of the analysis and of the
\* charting are caught and reported by the adapter.
C7_ChartOnlyAfterGoodResult == [](C7_ChartsNeedAResult) /\ [][C7_Step]_vars

\* C7 witness: the CLI drew the main chart, the pie chart raised, and the
\* handler reported it.
C7_Witness ==
  /\ frontend = "cli"
  /\ pc = "done"
  /\ chartCalls = <<"plot_stock_data", "plot_pie_chart">>
  /\ out[Len(out)].text = "Error: Analysis failed due to an unexpected issue: {}"

\* What analyze_stock computes for each series the provider may return that
\* it can analyse.
C8_Features ==
  {features_of(SortByDate(RowsOf(c))) : c \in {x \in FlowSeries : ~analysis_divides_by_zero(x)}}

\* C8 as stated: a successful 1D analysis (of positive closes) has the five
\* sections that any other successful 1D analysis of the same ticker has.
C8_FixedTextFor1D ==
  (/\ C_Success
   /\ timeframe = tf_1D
   /\ pc = "returned"
   /\ \A k \in 1..Len(data[1]) : data[1][k].close > 0) =>
    \A f \in C8_Features :
      /\ long_term_strategy_of(Upper(ticker.chars), tf_1D, f) = summary[1].long_term_strategy
      /\ short_term_strategy_of(Upper(ticker.chars), tf_1D, f) = summary[1].short_term_strategy
      /\ long_term_risk_of(Upper(ticker.chars), tf_1D, f) = summary[1].long_term_risk
      /\ short_term_risk_of(Upper(ticker.chars), tf_1D, f) = summary[1].short_term_risk
      /\ recommendation_of(Upper(ticker.chars), tf_1D, f) = summary[1].recommendation

\* C8 amended: for 1D the long-term strategy, the long-term risk and the
\* recommendation are the same for any two successful analyses of the same
\* ticker, and the short-term strategy and the short-term risk are the same
\* for any two whose series end on the same close.
C8_FixedTextFor1DButPrice ==
  (C_Success /\ timeframe = tf_1D /\ pc = "returned") =>
    \A f \in C8_Features :
      /\ long_term_strategy_of(Upper(ticker.chars), tf_1D, f) = summary[1].long_term_strategy
      /\ long_term_risk_of(Upper(ticker.chars), tf_1D, f) = summary[1].long_term_risk
      /\ recommendation_of(Upper(ticker.chars), tf_1D, f) = summary[1].recommendation
      /\ f.current_price = data[1][Len(data[1])].close =>
           /\ short_term_strategy_of(Upper(ticker.chars), tf_1D, f)
                = summary[1].short_term_strategy
           /\ short_term_risk_of(Upper(ticker.chars), tf_1D, f)
                = summary[1].short_term_risk

\* C8 witness: a successful 1D analysis of a series long enough to have an
\* SMA and an RSI.
C8_Witness ==
  /\ C_Success
  /\ timeframe = tf_1D
  /\ pc = "returned"
  /\ locals.current_sma20 # None
  /\ locals.current_rsi # None

\* C10: every timeframe of the enumerated set typed at the CLI prompt with a
\* non-empty ticker is accepted by main and handed to analyze_stock as a
\* timeframe analyze_stock accepts.
C10_CliAcceptsEveryTimeframe ==
  (frontend = "cli" /\ tfInput \in C_Timeframes /\ ticker.chars # <<>>) =>
    /\ ~(pc = "done" /\ analysis = "none")
    /\ analysis # "none" => timeframe \in C_Timeframes

====
